---- MODULE Spec2Model ----
(***************************************************************************)
(* Model of the day-scheduling engine rescheduleDay                        *)
(* (src/services/scheduler.ts).  One call of the engine is one behaviour:  *)
(* Setup maps the fixed tasks, sorts and merges the occupied ranges,       *)
(* derives the gaps and builds the queue; then every iteration of the      *)
(* fitting loop is one step (PlaceFit, SplitTask or RolloverTask), and     *)
(* Return leaves the loop.  Task objects live in a heap and arrays hold    *)
(* references, as in the program.                                          *)
(***************************************************************************)
EXTENDS Integers, Sequences, FiniteSets, TLC

VARIABLES pc, heap, tasks, settings, occupied, gaps, queue, blocks, rollover,
          log, calls, prev

\* log records the iterations of the fitting loop of the current call, calls
\* counts the calls made with the same arguments and prev keeps the result
\* of the previous call.
vars == <<pc, heap, tasks, settings, occupied, gaps, queue, blocks, rollover,
          log, calls, prev>>

\* ------------------------------------------------------------------ bounds
MaxTasks == 3

\* repeated calls with the same arguments: number of tasks, number of calls
MaxRecallTasks == 2
MaxCalls == 2
MaxDeleteTasks == 3

\* ------------------------------------------------------- program constants
MinutesPerDay == 1440
MinPart == 15
SplitThreshold == 30

ANCHOR == "Anchor"
FLOATING == "Floating"
INTERRUPT == "Interrupt"

PENDING == "pending"
SCHEDULED == "scheduled"
COMPLETED == "completed"

\* ------------------------------------------------------------- numbers
\* NaN, the value of Number on a non-numeric string, is kept apart from
\* every number the engine computes with (minutes of a day, durations).
NaN == -1000000

IsNaN(x) == x = NaN

\* a + b, a - b, a < b, a <= b of the language: NaN is contagious and every
\* comparison with it is false
Plus(a, b) == IF IsNaN(a) \/ IsNaN(b) THEN NaN ELSE a + b
Minus(a, b) == IF IsNaN(a) \/ IsNaN(b) THEN NaN ELSE a - b
Less(a, b) == ~IsNaN(a) /\ ~IsNaN(b) /\ a < b
LessEq(a, b) == ~IsNaN(a) /\ ~IsNaN(b) /\ a <= b

\* Math.max, Math.min
Max(a, b) == IF IsNaN(a) \/ IsNaN(b) THEN NaN ELSE IF a >= b THEN a ELSE b
Min(a, b) == IF IsNaN(a) \/ IsNaN(b) THEN NaN ELSE IF a <= b THEN a ELSE b

\* ------------------------------------------------------------- time codec
\* A clock time is the sequence of its characters; the absent
\* fixedStartTime (undefined) and the empty string are both falsy.
NoTime == <<>>

Digits == <<"0", "1", "2", "3", "4", "5", "6", "7", "8", "9">>

IsDigit(c) == \E d \in 1..10 : Digits[d] = c

DigitVal(c) == (CHOOSE d \in 1..10 : Digits[d] = c) - 1

RECURSIVE DecimalValue(_)
DecimalValue(s) ==
  IF s = <<>> THEN 0
  ELSE DecimalValue(SubSeq(s, 1, Len(s) - 1)) * 10 + DigitVal(s[Len(s)])

\* Number(str) for the strings of the model, made of decimal digits and
\* letters: the value of a string of digits, 0 for "", NaN when a letter
\* occurs
Number(s) ==
  IF \A i \in 1..Len(s) : IsDigit(s[i]) THEN DecimalValue(s) ELSE NaN

\* time.split(':')
RECURSIVE SplitColon(_, _, _)
SplitColon(s, i, cur) ==
  IF i > Len(s) THEN <<cur>>
  ELSE IF s[i] = ":" THEN <<cur>> \o SplitColon(s, i + 1, <<>>)
  ELSE SplitColon(s, i + 1, Append(cur, s[i]))

\* const [hours, minutes] = time.split(':').map(Number): without a ':'
\* minutes is undefined and the sum is NaN
timeToMinutes(time) ==
  LET parts == SplitColon(time, 1, <<>>)
      hours == Number(parts[1])
      minutes == IF Len(parts) >= 2 THEN Number(parts[2]) ELSE NaN
  IN IF IsNaN(hours) THEN NaN ELSE Plus(hours * 60, minutes)

WindowStart == timeToMinutes(<<"0", "6", ":", "0", "0">>)
dayEnd == timeToMinutes(<<"2", "3", ":", "0", "0">>)

\* ------------------------------------------------------------------ inputs
\* Task values the caller may pass (the id is the position in the array).
Tpl(title, type, priority, dur, split, status, time) ==
  [title |-> <<title>>, type |-> type, priority |-> priority,
   durationMinutes |-> dur, isSplittable |-> split, status |-> status,
   fixedStartTime |-> time]

TaskPool ==
  { Tpl("Morning", ANCHOR, 1, 480, FALSE, PENDING, <<"0", "6", ":", "3", "0">>),
    Tpl("Afternoon", INTERRUPT, 2, 450, FALSE, COMPLETED, <<"1", "5", ":", "0", "0">>),
    Tpl("Late", ANCHOR, 3, 15, FALSE, PENDING, <<"2", "3", ":", "3", "0">>),
    Tpl("DeepWork", ANCHOR, 2, 90, FALSE, PENDING, <<"0", "9", ":", "0", "0">>),
    Tpl("Unset", ANCHOR, 1, 60, FALSE, PENDING, NoTime),
    Tpl("Report", FLOATING, 1, 85, TRUE, PENDING, NoTime),
    Tpl("Review", FLOATING, 2, 1025, FALSE, PENDING, NoTime),
    Tpl("Q3", FLOATING, 1, 120, TRUE, PENDING, NoTime),
    Tpl("Mail", FLOATING, 1, 20, TRUE, PENDING, NoTime),
    Tpl("Done", FLOATING, 2, 100, TRUE, COMPLETED, NoTime),
    Tpl("Epic", FLOATING, 3, 1030, TRUE, PENDING, NoTime) }

Buffers == {0, 15, 20}

\* suffixes Math.random().toString(36).substr(2, 5) may produce
RandSuffix == {"r1", "r2"}

WithId(tpl, i) ==
  [id |-> i, title |-> tpl.title, type |-> tpl.type, priority |-> tpl.priority,
   durationMinutes |-> tpl.durationMinutes, isSplittable |-> tpl.isSplittable,
   status |-> tpl.status, fixedStartTime |-> tpl.fixedStartTime]

InputHeapsUpTo(pool, max) ==
  UNION { { [i \in 1..n |-> WithId(f[i], i)] : f \in [1..n -> pool] } : n \in 0..max }

InputHeaps == InputHeapsUpTo(TaskPool, MaxTasks)

\* task values with a fixedStartTime that is not a clock time
FormatPool ==
  { Tpl("NineAm", ANCHOR, 1, 90, FALSE, PENDING, <<"9", "a", "m">>),
    Tpl("NoColon", INTERRUPT, 1, 45, FALSE, PENDING, <<"0", "9", "0", "0">>),
    Tpl("DeepWork", ANCHOR, 2, 90, FALSE, PENDING, <<"0", "9", ":", "0", "0">>),
    Tpl("Mail", FLOATING, 1, 20, FALSE, PENDING, NoTime),
    Tpl("Epic", FLOATING, 3, 1030, TRUE, PENDING, NoTime) }

InputSettings ==
  { [workStart |-> <<"0", "9", ":", "0", "0">>,
     workEnd |-> <<"1", "7", ":", "0", "0">>,
     bufferMinutes |-> b] : b \in Buffers }

\* ------------------------------------------------- fixed tasks (step 2)
\* variant: Interrupt tasks are not treated as fixed
IsFixedAnchorOnly(t) == t.type = ANCHOR

IsFixed(t) == t.type = ANCHOR \/ t.type = INTERRUPT

\* tasks.filter(...) followed by the test on fixedStartTime
RECURSIVE SelectSeq2(_, _, _)
SelectSeq2(h, refs, keepFixed) ==
  IF refs = <<>> THEN <<>>
  ELSE LET t == h[Head(refs)]
           keep == IF keepFixed
                     THEN IsFixed(t) /\ t.fixedStartTime # NoTime
                     ELSE t.type = FLOATING /\ t.status # COMPLETED
       IN (IF keep THEN <<Head(refs)>> ELSE <<>>) \o SelectSeq2(h, Tail(refs), keepFixed)

\* variant: the fixed tasks are taken last to first
ScheduledFixedReversed(h, refs) ==
  LET f == SelectSeq2(h, refs, TRUE)
  IN [i \in 1..Len(f) |-> f[Len(f) + 1 - i]]

ScheduledFixed(h, refs) == SelectSeq2(h, refs, TRUE)

FixedBlock(task) ==
  LET start == timeToMinutes(task.fixedStartTime)
      end == Plus(start, task.durationMinutes)
  IN [id |-> <<"block", task.id>>, taskId |-> task.id, taskTitle |-> task.title,
      taskType |-> task.type, startTime |-> start, endTime |-> end,
      isLocked |-> TRUE, priority |-> task.priority, status |-> SCHEDULED]

\* variant: the occupied interval is the block itself
OccupiedOfNoBuffer(task, bufferMinutes) ==
  LET start == timeToMinutes(task.fixedStartTime)
      end == Plus(start, task.durationMinutes)
  IN [start |-> Max(0, start), end |-> Min(MinutesPerDay, end)]

OccupiedOf(task, bufferMinutes) ==
  LET start == timeToMinutes(task.fixedStartTime)
      end == Plus(start, task.durationMinutes)
  IN [start |-> Max(0, Minus(start, bufferMinutes)),
      end |-> Min(MinutesPerDay, Plus(end, bufferMinutes))]

\* occupied.sort((a, b) => a.start - b.start), a stable sort
RECURSIVE InsertOccupied(_, _)
InsertOccupied(s, x) ==
  IF s = <<>> THEN <<x>>
  ELSE IF Minus(s[Len(s)].start, x.start) <= 0 THEN Append(s, x)
  ELSE Append(InsertOccupied(SubSeq(s, 1, Len(s) - 1), x), s[Len(s)])

RECURSIVE SortOccupied(_)
SortOccupied(s) ==
  IF s = <<>> THEN <<>>
  ELSE InsertOccupied(SortOccupied(SubSeq(s, 1, Len(s) - 1)), s[Len(s)])

Orderings(s) ==
  { [i \in 1..Len(s) |-> s[f[i]]] :
      f \in { g \in [1..Len(s) -> 1..Len(s)] : \A i, j \in 1..Len(s) : g[i] = g[j] => i = j } }

\* the arrays occupied.sort may leave: the stably sorted one when the
\* comparator is consistent; when a start is NaN the comparator returns NaN
\* for some pairs, is not consistent, and the order is implementation-defined
SortOutcomes(s) ==
  IF \E i \in 1..Len(s) : IsNaN(s[i].start) THEN Orderings(s) ELSE {SortOccupied(s)}

RECURSIVE MergeFrom(_, _, _, _)
MergeFrom(occ, i, current, merged) ==
  IF i > Len(occ) THEN Append(merged, current)
  ELSE IF Less(occ[i].start, current.end)
    THEN MergeFrom(occ, i + 1, [current EXCEPT !.end = Max(current.end, occ[i].end)], merged)
    ELSE MergeFrom(occ, i + 1, occ[i], Append(merged, current))

MergeOccupied(occ) ==
  IF Len(occ) > 0 THEN MergeFrom(occ, 2, occ[1], <<>>) ELSE <<>>

\* ------------------------------------------------------- gaps (step 3)
RECURSIVE ScanGaps(_, _, _, _)
ScanGaps(occ, i, cursor, acc) ==
  IF i > Len(occ) THEN [gaps |-> acc, cursor |-> cursor]
  ELSE IF LessEq(occ[i].end, cursor) THEN ScanGaps(occ, i + 1, cursor, acc)
  ELSE ScanGaps(occ, i + 1, Max(cursor, occ[i].end),
                IF Less(cursor, occ[i].start)
                  THEN Append(acc, [start |-> cursor, end |-> occ[i].start,
                                    duration |-> occ[i].start - cursor])
                  ELSE acc)

FindGaps(occ) ==
  LET scan == ScanGaps(occ, 1, WindowStart, <<>>)
  IN IF Less(scan.cursor, dayEnd)
       THEN Append(scan.gaps, [start |-> scan.cursor, end |-> dayEnd,
                               duration |-> dayEnd - scan.cursor])
       ELSE scan.gaps

\* ---------------------------------------------- floating tasks (step 4)
\* variant: shortest first within a priority
CompareFloatingShortestFirst(a, b) ==
  IF a.priority # b.priority THEN a.priority - b.priority
  ELSE a.durationMinutes - b.durationMinutes

\* comparator of the floating sort: priority ascending, then longest first
CompareFloating(a, b) ==
  IF a.priority # b.priority THEN a.priority - b.priority
  ELSE b.durationMinutes - a.durationMinutes

RECURSIVE InsertFloating(_, _, _)
InsertFloating(h, s, x) ==
  IF s = <<>> THEN <<x>>
  ELSE IF CompareFloating(h[s[Len(s)]], h[x]) <= 0 THEN Append(s, x)
  ELSE Append(InsertFloating(h, SubSeq(s, 1, Len(s) - 1), x), s[Len(s)])

RECURSIVE SortFloating(_, _)
SortFloating(h, s) ==
  IF s = <<>> THEN <<>>
  ELSE InsertFloating(h, SortFloating(h, SubSeq(s, 1, Len(s) - 1)), s[Len(s)])

\* variant: a fixed task without a start time is queued like a floating one
floatingTasksAndUnset(h, refs) ==
  SortFloating(h, SelectSeq(refs, LAMBDA r :
    \/ h[r].type = FLOATING /\ h[r].status # COMPLETED
    \/ IsFixed(h[r]) /\ h[r].fixedStartTime = NoTime))

floatingTasks(h, refs) == SortFloating(h, SelectSeq2(h, refs, FALSE))

\* ------------------------------------------------ fitting loop (step 5)
Fits(gap, task) == gap.duration >= task.durationMinutes

\* variant: the tightest gap the task fits
FirstFitTightest(gs, task) ==
  IF \E i \in 1..Len(gs) : Fits(gs[i], task)
    THEN CHOOSE i \in 1..Len(gs) :
           /\ Fits(gs[i], task)
           /\ \A j \in 1..Len(gs) : Fits(gs[j], task) => gs[i].duration <= gs[j].duration
           /\ \A j \in 1..(i - 1) : Fits(gs[j], task) => gs[i].duration < gs[j].duration
    ELSE 0

\* index of the first gap the task fits, 0 when the scan finds none
FirstFit(gs, task) ==
  IF \E i \in 1..Len(gs) : Fits(gs[i], task)
    THEN CHOOSE i \in 1..Len(gs) :
           Fits(gs[i], task) /\ \A j \in 1..(i - 1) : ~Fits(gs[j], task)
    ELSE 0

FloatBlock(task, gap, suffix) ==
  LET start == gap.start
      end == start + task.durationMinutes
  IN [id |-> <<"block", task.id, suffix>>, taskId |-> task.id,
      taskTitle |-> task.title, taskType |-> task.type, startTime |-> start,
      endTime |-> end, isLocked |-> FALSE, priority |-> task.priority,
      status |-> SCHEDULED]

\* variants: the gap advances by the buffer only / by the length only
ConsumedBufferOnly(length, bufferMinutes) == bufferMinutes

ConsumedNoBuffer(length, bufferMinutes) == length

\* what a placement of the given length takes out of its gap
Consumed(length, bufferMinutes) == length + bufferMinutes

ConsumeGap(gs, i, consumed) ==
  [gs EXCEPT ![i] = [@ EXCEPT !.start = @ + consumed, !.duration = @ - consumed]]

\* -------------------------------------------------- splitting (step 6)
\* variant: the last gap of maximal duration
LargestGapLatest(gs) ==
  IF gs = <<>> THEN 0
  ELSE CHOOSE i \in 1..Len(gs) :
         /\ \A j \in 1..Len(gs) : gs[j].duration <= gs[i].duration
         /\ \A j \in (i + 1)..Len(gs) : gs[j].duration < gs[i].duration

\* [...gaps].sort((a, b) => b.duration - a.duration)[0]: the first gap of
\* maximal duration (the sort is stable), 0 when there is no gap
LargestGap(gs) ==
  IF gs = <<>> THEN 0
  ELSE CHOOSE i \in 1..Len(gs) :
         /\ \A j \in 1..Len(gs) : gs[j].duration <= gs[i].duration
         /\ \A j \in 1..(i - 1) : gs[j].duration < gs[i].duration

\* variant: the whole gap is taken
ActualFitWholeGap(fitDuration, bufferMinutes) == Max(MinPart, fitDuration)

ActualFit(fitDuration, bufferMinutes) == Max(MinPart, fitDuration - bufferMinutes)

\* variants: isSplittable is not consulted / durationMinutes is not
MaySplitAnyTask(task) == task.durationMinutes > SplitThreshold

MaySplitAnyDuration(task) == task.isSplittable

MaySplit(task) == task.isSplittable /\ task.durationMinutes > SplitThreshold

\* variant: the largest gap must be 30 minutes long to be used
SplitsFromThreshold(gs, task, bufferMinutes) ==
  /\ MaySplit(task)
  /\ LargestGap(gs) # 0
  /\ gs[LargestGap(gs)].duration >= SplitThreshold

\* the split branch is taken and does not end in its inner rollover
Splits(gs, task, bufferMinutes) ==
  /\ MaySplit(task)
  /\ LargestGap(gs) # 0
  /\ gs[LargestGap(gs)].duration >= MinPart
  /\ ~(ActualFit(gs[LargestGap(gs)].duration, bufferMinutes) < MinPart)

\* variants: operands swapped / the remainder keeps the whole duration
PartBDurationReversed(task, partADuration) == partADuration - task.durationMinutes

PartBDurationWhole(task, partADuration) == task.durationMinutes

\* variant: the remainder is never shorter than the minimum part
PartBDurationAtLeastMin(task, partADuration) ==
  Max(MinPart, task.durationMinutes - partADuration)

PartBDuration(task, partADuration) == task.durationMinutes - partADuration

PartABlock(task, largestGap, partADuration) ==
  [id |-> <<"block", task.id, "partA">>, taskId |-> task.id,
   taskTitle |-> Append(task.title, "(Part 1)"), taskType |-> task.type,
   startTime |-> largestGap.start, endTime |-> largestGap.start + partADuration,
   isLocked |-> FALSE, priority |-> task.priority, status |-> SCHEDULED]

\* variants: the remainder is {...task, title} / the task object itself is
\* rewritten and re-queued
MakePartBSameDuration(h, ref, partBDuration) ==
  [heap |-> Append(h, [h[ref] EXCEPT !.title = Append(@, "(Part 2)")]),
   ref |-> Len(h) + 1]

MakePartBInPlace(h, ref, partBDuration) ==
  [heap |-> [h EXCEPT ![ref] = [@ EXCEPT !.title = Append(@, "(Part 2)"),
                                         !.durationMinutes = partBDuration]],
   ref |-> ref]

\* const partB = {...task, title, durationMinutes}: a new object; the
\* result is the heap after the allocation and the reference put in the queue
MakePartB(h, ref, partBDuration) ==
  [heap |-> Append(h, [h[ref] EXCEPT !.title = Append(@, "(Part 2)"),
                                      !.durationMinutes = partBDuration]),
   ref |-> Len(h) + 1]

\* variant: the task is dropped
RolloverDrop(ro, ref) == ro

\* variant: the task goes to the front of the rollover list
RolloverUnshift(ro, ref) == <<ref>> \o ro

RolloverPush(ro, ref) == Append(ro, ref)

\* variant: the remainder goes to the back of the queue
UnshiftBack(q, ref) == Append(q, ref)

\* queue.unshift(partB)
Unshift(q, ref) == <<ref>> \o q

\* the entry the log gets for an iteration on the task at the queue's head
LogEntry(ref, task, kind) == [ref |-> ref, id |-> task.id, kind |-> kind]

\* ------------------------------------------------------------ the machine
TypeOK ==
  /\ pc \in {"start", "loop", "done"}
  /\ settings \in InputSettings
  /\ \A i \in 1..Len(tasks) : tasks[i] \in 1..Len(heap)

Init ==
  /\ pc = "start"
  /\ heap \in InputHeaps
  /\ tasks = [i \in 1..Len(heap) |-> i]
  /\ settings \in InputSettings
  /\ occupied = <<>>
  /\ gaps = <<>>
  /\ queue = <<>>
  /\ blocks = <<>>
  /\ rollover = <<>>
  /\ log = <<>>
  /\ calls = 1
  /\ prev = [blocks |-> <<>>, rollover |-> <<>>]

\* steps 1-4 and the copy into the queue
Setup ==
  /\ pc = "start"
  /\ \E fixed \in {ScheduledFixed(heap, tasks)} :
       \E raw \in {[i \in 1..Len(fixed) |-> OccupiedOf(heap[fixed[i]], settings.bufferMinutes)]} :
         \E sorted \in SortOutcomes(raw) :
           \E merged \in {MergeOccupied(sorted)} :
             /\ blocks' = [i \in 1..Len(fixed) |-> FixedBlock(heap[fixed[i]])]
             /\ occupied' = merged
             /\ gaps' = FindGaps(merged)
  /\ queue' = floatingTasks(heap, tasks)
  /\ pc' = "loop"
  /\ UNCHANGED <<heap, tasks, settings, rollover, log, calls, prev>>

\* an iteration whose first-fit scan finds a gap
PlaceFit ==
  /\ pc = "loop"
  /\ queue # <<>>
  /\ LET task == heap[Head(queue)]
         i == FirstFit(gaps, task)
     IN /\ i # 0
        /\ \E suffix \in RandSuffix :
             blocks' = Append(blocks, FloatBlock(task, gaps[i], suffix))
        /\ gaps' = ConsumeGap(gaps, i, Consumed(task.durationMinutes, settings.bufferMinutes))
  /\ queue' = Tail(queue)
  /\ log' = Append(log, LogEntry(Head(queue), heap[Head(queue)], "place"))
  /\ UNCHANGED <<pc, heap, tasks, settings, occupied, rollover, calls, prev>>

\* an iteration that places Part 1 and re-queues Part 2
SplitTask ==
  /\ pc = "loop"
  /\ queue # <<>>
  /\ LET task == heap[Head(queue)]
         lg == LargestGap(gaps)
         actualFit == ActualFit(gaps[lg].duration, settings.bufferMinutes)
         partB == MakePartB(heap, Head(queue), PartBDuration(task, actualFit))
     IN /\ FirstFit(gaps, task) = 0
        /\ Splits(gaps, task, settings.bufferMinutes)
        /\ blocks' = Append(blocks, PartABlock(task, gaps[lg], actualFit))
        /\ gaps' = ConsumeGap(gaps, lg, Consumed(actualFit, settings.bufferMinutes))
        /\ heap' = partB.heap
        /\ queue' = Unshift(Tail(queue), partB.ref)
  /\ log' = Append(log, LogEntry(Head(queue), heap[Head(queue)], "split"))
  /\ UNCHANGED <<pc, tasks, settings, occupied, rollover, calls, prev>>

\* an iteration that gives the task up
RolloverTask ==
  /\ pc = "loop"
  /\ queue # <<>>
  /\ LET task == heap[Head(queue)]
     IN /\ FirstFit(gaps, task) = 0
        /\ ~Splits(gaps, task, settings.bufferMinutes)
  /\ rollover' = RolloverPush(rollover, Head(queue))
  /\ queue' = Tail(queue)
  /\ log' = Append(log, LogEntry(Head(queue), heap[Head(queue)], "rollover"))
  /\ UNCHANGED <<pc, heap, tasks, settings, occupied, gaps, blocks, calls, prev>>

\* the queue is empty: return { blocks, rolloverTasks }
Return ==
  /\ pc = "loop"
  /\ queue = <<>>
  /\ pc' = "done"
  /\ UNCHANGED <<heap, tasks, settings, occupied, gaps, queue, blocks, rollover,
                 log, calls, prev>>

Next == Setup \/ PlaceFit \/ SplitTask \/ RolloverTask \/ Return

Spec == Init /\ [][Next]_vars

\* one iteration of the fitting loop, or its exit
LoopStep == PlaceFit \/ SplitTask \/ RolloverTask \/ Return

\* the loop is sequential code: once entered, its next step is taken
FairSpec == Spec /\ WF_vars(LoopStep)

\* ------------------------------------------------------- repeated calls
\* what the caller keeps of a result: the blocks and the rolled-over tasks
ResultOf(h, bs, ro) ==
  [blocks |-> bs, rollover |-> [k \in 1..Len(ro) |-> h[ro[k]]]]

\* the caller calls rescheduleDay(tasks, settings) again with the same
\* arguments (the engine effect of App runs the engine anew on every change
\* of its inputs); every local of the function starts afresh, the Task
\* objects are the ones the previous call was given
Recall ==
  /\ pc = "done"
  /\ calls < MaxCalls
  /\ prev' = ResultOf(heap, blocks, rollover)
  /\ calls' = calls + 1
  /\ pc' = "start"
  /\ occupied' = <<>>
  /\ gaps' = <<>>
  /\ queue' = <<>>
  /\ blocks' = <<>>
  /\ rollover' = <<>>
  /\ log' = <<>>
  /\ UNCHANGED <<heap, tasks, settings>>

\* ------------------------------------------- calls with malformed times
FormatInit ==
  /\ pc = "start"
  /\ heap \in InputHeapsUpTo(FormatPool, MaxTasks)
  /\ tasks = [i \in 1..Len(heap) |-> i]
  /\ settings \in InputSettings
  /\ occupied = <<>>
  /\ gaps = <<>>
  /\ queue = <<>>
  /\ blocks = <<>>
  /\ rollover = <<>>
  /\ log = <<>>
  /\ calls = 1
  /\ prev = [blocks |-> <<>>, rollover |-> <<>>]

FormatSpec == FormatInit /\ [][Next]_vars

\* ------------------------------------------------ calls after a deletion
\* task values for the lists a task is deleted from
DeletePool ==
  { Tpl("Unset", ANCHOR, 1, 60, FALSE, PENDING, NoTime),
    Tpl("Call", INTERRUPT, 2, 30, FALSE, PENDING, NoTime),
    Tpl("DeepWork", ANCHOR, 2, 90, FALSE, PENDING, <<"0", "9", ":", "0", "0">>),
    Tpl("Q3", FLOATING, 1, 120, TRUE, PENDING, NoTime),
    Tpl("Epic", FLOATING, 3, 1030, TRUE, PENDING, NoTime) }

DeleteInit ==
  /\ pc = "start"
  /\ heap \in InputHeapsUpTo(DeletePool, MaxDeleteTasks)
  /\ tasks = [i \in 1..Len(heap) |-> i]
  /\ settings \in InputSettings
  /\ occupied = <<>>
  /\ gaps = <<>>
  /\ queue = <<>>
  /\ blocks = <<>>
  /\ rollover = <<>>
  /\ log = <<>>
  /\ calls = 1
  /\ prev = [blocks |-> <<>>, rollover |-> <<>>]

\* deleteTask(taskId) on a task of the list: setTasks(prev => prev.filter(t =>
\* t.id !== taskId)); the change of tasks makes the engine effect call
\* rescheduleDay on the new list
DeleteTask ==
  /\ pc = "done"
  /\ calls < MaxCalls
  /\ \E i \in 1..Len(tasks) :
       LET taskId == heap[tasks[i]].id
       IN tasks' = SelectSeq(tasks, LAMBDA r : heap[r].id # taskId)
  /\ prev' = ResultOf(heap, blocks, rollover)
  /\ calls' = calls + 1
  /\ pc' = "start"
  /\ occupied' = <<>>
  /\ gaps' = <<>>
  /\ queue' = <<>>
  /\ blocks' = <<>>
  /\ rollover' = <<>>
  /\ log' = <<>>
  /\ UNCHANGED <<heap, settings>>

DeleteNext == Setup \/ PlaceFit \/ SplitTask \/ RolloverTask \/ Return \/ DeleteTask

DeleteSpec == DeleteInit /\ [][DeleteNext]_vars

RecallInit == Init /\ Len(heap) <= MaxRecallTasks

RecallNext == Setup \/ PlaceFit \/ SplitTask \/ RolloverTask \/ Return \/ Recall

RecallSpec == RecallInit /\ [][RecallNext]_vars

\* ------------------------------------------------------ shared vocabulary
Finished == pc = "done"

BlockLen(b) == b.endTime - b.startTime

Overlap(a, b) == a.startTime < b.endTime /\ b.startTime < a.endTime

IsPartA(b) == Len(b.id) = 3 /\ b.id[3] = "partA"

\* references of the caller's floating tasks that are not Completed
LiveFloating ==
  { i \in 1..Len(tasks) : heap[tasks[i]].type = "Floating" /\ heap[tasks[i]].status # "completed" }

BlocksOf(id) == { k \in 1..Len(blocks) : blocks[k].taskId = id }

RolloverOf(id) == { k \in 1..Len(rollover) : heap[rollover[k]].id = id }

RECURSIVE SumBlockLen(_)
SumBlockLen(ks) ==
  IF ks = {} THEN 0
  ELSE LET k == CHOOSE x \in ks : TRUE
       IN BlockLen(blocks[k]) + SumBlockLen(ks \ {k})

\* a step of the loop that emitted a Part 1 block
SplitStep ==
  /\ pc = "loop"
  /\ Len(blocks') = Len(blocks) + 1
  /\ IsPartA(blocks'[Len(blocks')])

\* ------------------------------------------------------------------- C1
\* C1 (as stated): in the result, any two distinct blocks that are not parts
\* of the same split task have non-overlapping ranges [startTime, endTime),
\* two locked blocks included.
C1_NoOverlapAllPairs ==
  Finished =>
    \A i, j \in 1..Len(blocks) :
      (i # j /\ blocks[i].taskId # blocks[j].taskId) => ~Overlap(blocks[i], blocks[j])

\* C1 (amended): in the result, any two distinct blocks that are not parts of
\* the same split task and of which at least one is unlocked have
\* non-overlapping ranges; two locked blocks overlap when the caller's fixed
\* times overlap.
C1_NoOverlapUnlocked ==
  Finished =>
    \A i, j \in 1..Len(blocks) :
      (i # j /\ blocks[i].taskId # blocks[j].taskId /\ ~blocks[i].isLocked)
        => ~Overlap(blocks[i], blocks[j])

C1_Witness ==
  /\ Finished
  /\ \E i, j \in 1..Len(blocks) :
       /\ ~blocks[i].isLocked /\ blocks[j].isLocked
       /\ blocks[i].startTime = blocks[j].endTime + settings.bufferMinutes
  /\ \E i, j \in 1..Len(blocks) :
       /\ i < j /\ ~blocks[i].isLocked /\ ~blocks[j].isLocked
       /\ blocks[i].taskId # blocks[j].taskId
       /\ blocks[j].startTime = blocks[i].endTime + settings.bufferMinutes

\* ------------------------------------------------------------------- C2
\* C2 (as stated): every floating task that is not Completed has its id in
\* blocks or in rolloverTasks, never in both and never in neither.
C2_ExactlyOne ==
  Finished =>
    \A i \in LiveFloating :
      (BlocksOf(heap[tasks[i]].id) # {}) # (RolloverOf(heap[tasks[i]].id) # {})

\* C2 (amended): every floating task that is not Completed has its id in
\* blocks or in rolloverTasks, never in neither; it is in both exactly when
\* the task was split and its last Part 2 remainder was rolled over: the
\* rollover entry is then a remainder object, shorter than the task, and the
\* task has a Part 1 block.  A task has at most one rollover entry.
C2_Represented ==
  Finished =>
    \A i \in LiveFloating :
      LET id == heap[tasks[i]].id
          bs == BlocksOf(id)
          rs == RolloverOf(id)
      IN /\ bs # {} \/ rs # {}
         /\ Cardinality(rs) <= 1
         /\ (bs # {} /\ rs # {}) =>
              /\ \E k \in bs : IsPartA(blocks[k])
              /\ \A k \in rs :
                   /\ rollover[k] > Len(tasks)
                   /\ heap[rollover[k]].durationMinutes < heap[tasks[i]].durationMinutes
         /\ (bs = {}) => \A k \in rs : rollover[k] = tasks[i]

C2_Witness ==
  /\ Finished
  /\ \E i \in LiveFloating :
       BlocksOf(heap[tasks[i]].id) # {} /\ RolloverOf(heap[tasks[i]].id) # {}
  /\ \E i \in LiveFloating :
       BlocksOf(heap[tasks[i]].id) = {} /\ RolloverOf(heap[tasks[i]].id) # {}

\* ------------------------------------------------------------------- C3
\* C3 (as stated): a floating task has 0, 1 or 2 blocks: one block of the
\* full duration, or two blocks whose lengths sum to the duration, or no
\* block and a rollover entry; a Part 2 remainder is never split again.
C3_AtMostTwoBlocks ==
  Finished =>
    \A i \in LiveFloating :
      LET t == heap[tasks[i]]
          bs == BlocksOf(t.id)
          rs == RolloverOf(t.id)
      IN \/ Cardinality(bs) = 1 /\ rs = {} /\ SumBlockLen(bs) = t.durationMinutes
         \/ Cardinality(bs) = 2 /\ rs = {} /\ SumBlockLen(bs) = t.durationMinutes
         \/ bs = {} /\ rs # {}

\* C3 (amended): a Part 2 remainder that is still splittable and longer than
\* 30 minutes is split again, so a floating task has any number of blocks,
\* all but at most one of them Part 1 blocks.  When the task has no rollover
\* entry its blocks' lengths sum to the original durationMinutes and exactly
\* one of them is not a Part 1; when it has a rollover entry every block is a
\* Part 1 and the lengths sum to less than the original duration; a task
\* with no block has a rollover entry of its full duration.
C3_BlocksOfTask ==
  Finished =>
    \A i \in LiveFloating :
      LET t == heap[tasks[i]]
          bs == BlocksOf(t.id)
          rs == RolloverOf(t.id)
          whole == { k \in bs : ~IsPartA(blocks[k]) }
      IN /\ Cardinality(whole) <= 1
         /\ rs = {} => (Cardinality(whole) = 1 /\ SumBlockLen(bs) = t.durationMinutes)
         /\ rs # {} => (whole = {} /\ SumBlockLen(bs) < t.durationMinutes)
         /\ bs = {} => \A k \in rs : heap[rollover[k]].durationMinutes = t.durationMinutes

C3_Witness ==
  /\ Finished
  /\ \E i \in LiveFloating :
       /\ Cardinality(BlocksOf(heap[tasks[i]].id)) >= 3
       /\ RolloverOf(heap[tasks[i]].id) = {}

\* ------------------------------------------------------------------- C4
\* C4: every Anchor or Interrupt task with a fixedStartTime has exactly one
\* block, locked, at toMinutes(fixedStartTime) for durationMinutes (not
\* buffer-expanded), whatever its status; no Anchor or Interrupt task is in
\* rolloverTasks.  (06:30 is minute 390, 15:00 is minute 900.)
C4_FixedScheduled ==
  pc # "start" =>
    /\ \A i \in 1..Len(tasks) :
         LET t == heap[tasks[i]]
         IN (t.type \in {"Anchor", "Interrupt"} /\ t.fixedStartTime # NoTime) =>
              /\ Cardinality(BlocksOf(t.id)) = 1
              /\ \A k \in BlocksOf(t.id) :
                   /\ blocks[k].isLocked
                   /\ blocks[k].startTime = timeToMinutes(t.fixedStartTime)
                   /\ blocks[k].endTime = blocks[k].startTime + t.durationMinutes
                   /\ t.fixedStartTime = <<"0", "6", ":", "3", "0">> => blocks[k].startTime = 390
                   /\ t.fixedStartTime = <<"1", "5", ":", "0", "0">> => blocks[k].startTime = 900
    /\ \A k \in 1..Len(rollover) : heap[rollover[k]].type = "Floating"

C4_Witness ==
  /\ Finished
  /\ settings.bufferMinutes > 0
  /\ \E k \in 1..Len(blocks) :
       /\ blocks[k].isLocked /\ blocks[k].taskType = "Interrupt"
       /\ heap[blocks[k].taskId].status = "completed"
       /\ blocks[k].startTime = 900 /\ blocks[k].endTime = 1350
  /\ rollover # <<>>

\* ------------------------------------------------------------------- C5
\* C5 (as stated, for the unlocked blocks): every floating or split-part
\* block lies within the window 06:00-23:00, 360 <= startTime and
\* endTime <= 1380, for any set of fixed tasks.
C5_UnlockedInWindow ==
  \A k \in 1..Len(blocks) :
    ~blocks[k].isLocked => (360 <= blocks[k].startTime /\ blocks[k].endTime <= 1380)

\* ------------------------------------------------------------------- C6
\* the gaps as the Gap Finder produced them, before any consumption
InitialGaps == FindGaps(occupied)

InGap(b, g) == g.start <= b.startTime /\ b.startTime < g.end

\* C6: of two unlocked blocks placed into the same original gap, the one
\* placed later starts at or after the end of the earlier one plus
\* bufferMinutes.
C6_BufferRespected ==
  pc # "start" =>
    \A i, j \in 1..Len(blocks) :
      (/\ i < j
       /\ ~blocks[i].isLocked /\ ~blocks[j].isLocked
       /\ \E g \in 1..Len(InitialGaps) :
            InGap(blocks[i], InitialGaps[g]) /\ InGap(blocks[j], InitialGaps[g]))
        => blocks[j].startTime >= blocks[i].endTime + settings.bufferMinutes

C6_Witness ==
  /\ settings.bufferMinutes > 0
  /\ \E i, j \in 1..Len(blocks) :
       /\ i < j
       /\ ~blocks[i].isLocked /\ IsPartA(blocks[j])
       /\ \E g \in 1..Len(InitialGaps) :
            InGap(blocks[i], InitialGaps[g]) /\ InGap(blocks[j], InitialGaps[g])
       /\ blocks[j].startTime = blocks[i].endTime + settings.bufferMinutes

\* ------------------------------------------------------------------- C7
\* C7: at every split, the length of the Part 1 block plus the
\* durationMinutes of the re-queued Part 2 equals the durationMinutes of the
\* task being split, and the remainder is strictly positive and strictly
\* shorter than its parent.
C7_SplitConserves ==
  [][SplitStep =>
       LET parent == heap[Head(queue)]
           part1 == blocks'[Len(blocks')]
           part2 == heap'[Head(queue')]
       IN /\ BlockLen(part1) + part2.durationMinutes = parent.durationMinutes
          /\ part2.durationMinutes > 0
          /\ part2.durationMinutes < parent.durationMinutes]_vars

\* a split has just happened with a non-zero buffer: Part 2 heads the queue
C7_Witness ==
  /\ pc = "loop"
  /\ settings.bufferMinutes > 0
  /\ queue # <<>>
  /\ Head(queue) > Len(tasks)
  /\ blocks # <<>>
  /\ IsPartA(blocks[Len(blocks)])
  /\ blocks[Len(blocks)].taskId = heap[Head(queue)].id
  /\ heap[Head(queue)].durationMinutes < 30

\* ------------------------------------------------------------------- C8
\* C8 (as stated): whenever a task is split, the Part 1 block is at least 15
\* minutes long and the Part 2 remainder has durationMinutes >= 15.
C8_BothPartsAtLeastMin ==
  /\ \A k \in 1..Len(blocks) : IsPartA(blocks[k]) => BlockLen(blocks[k]) >= 15
  /\ \A r \in (Len(tasks) + 1)..Len(heap) : heap[r].durationMinutes >= 15

\* ------------------------------------------------------------------- C9
\* minutes still waiting in the queue: the variant of the fitting loop
RECURSIVE QueueMinutes(_, _)
QueueMinutes(h, q) ==
  IF q = <<>> THEN 0 ELSE h[Head(q)].durationMinutes + QueueMinutes(h, Tail(q))

\* C9: the fitting loop terminates: every iteration removes a task for good
\* or replaces it by a single strictly shorter remainder (the queue never
\* grows and the minutes waiting in it strictly decrease), and the call
\* eventually returns.
C9_Terminates ==
  /\ [][(pc = "loop" /\ queue # <<>>) =>
          /\ Len(queue') <= Len(queue)
          /\ QueueMinutes(heap', queue') < QueueMinutes(heap, queue)]_vars
  /\ (pc = "loop") ~> (pc = "done")

C9_Witness ==
  /\ Finished
  /\ Len(heap) >= Len(tasks) + 2
  /\ rollover # <<>>
  /\ \E k \in 1..Len(blocks) : ~blocks[k].isLocked /\ ~IsPartA(blocks[k])

\* ------------------------------------------------------------------ C10
\* C10: the call never changes its inputs: the tasks array keeps its
\* elements and their order, every caller's Task object keeps every field,
\* settings is unchanged, and a Part 2 remainder is a new object.
C10_InputsUnchanged ==
  [][/\ tasks' = tasks
     /\ settings' = settings
     /\ \A i \in 1..Len(tasks) : heap'[tasks[i]] = heap[tasks[i]]
     /\ SplitStep => (\A i \in 1..Len(tasks) : Head(queue') # tasks[i])]_vars

C10_Witness ==
  /\ Finished
  /\ \E k \in 1..Len(rollover) : rollover[k] > Len(tasks)
  /\ \E k \in 1..Len(rollover) : rollover[k] <= Len(tasks)
  /\ \E r \in (Len(tasks) + 1)..Len(heap) :
       /\ heap[r].title # heap[heap[r].id].title
       /\ heap[r].durationMinutes # heap[heap[r].id].durationMinutes

\* ------------------------------------------------------------------ C11
\* what a block says about the placement, without the identifier
Decision(b) == <<b.taskId, b.taskTitle, b.startTime, b.endTime, b.isLocked>>

\* C11: a call made again with the same tasks and settings yields the same
\* sequence of (taskId, taskTitle, startTime, endTime, isLocked) and the same
\* rolloverTasks as the call before it; only the random suffix of block ids
\* may differ.
C11_SameDecisions ==
  (calls >= 2 /\ Finished) =>
    /\ Len(blocks) = Len(prev.blocks)
    /\ \A k \in 1..Len(blocks) : Decision(blocks[k]) = Decision(prev.blocks[k])
    /\ ResultOf(heap, blocks, rollover).rollover = prev.rollover

C11_Witness ==
  /\ calls >= 2
  /\ Finished
  /\ Len(blocks) = Len(prev.blocks)
  /\ \E k \in 1..Len(blocks) : blocks[k].id # prev.blocks[k].id
  /\ \E k \in 1..Len(blocks) : IsPartA(blocks[k])
  /\ rollover # <<>>

\* ------------------------------------------------------------------ C12
\* the order of the Task Selector on two tasks
Precedes(a, b) ==
  \/ a.priority < b.priority
  \/ a.priority = b.priority /\ a.durationMinutes > b.durationMinutes

\* C12: when floating task a comes before floating task b in Task Selector
\* order (lower priority number, or equal priority and longer), every
\* iteration on a and on a's Part 2 remainders comes before the first
\* iteration on b; at the end every such task has had an iteration.
C12_SelectorOrder ==
  /\ \A i, j \in LiveFloating :
       Precedes(heap[tasks[i]], heap[tasks[j]]) =>
         \A p, q \in 1..Len(log) :
           (log[p].id = heap[tasks[i]].id /\ log[q].id = heap[tasks[j]].id) => p < q
  /\ Finished =>
       \A i \in LiveFloating : \E p \in 1..Len(log) : log[p].id = heap[tasks[i]].id

C12_Witness ==
  /\ Finished
  /\ \E i, j \in LiveFloating :
       /\ heap[tasks[i]].priority < heap[tasks[j]].priority
       /\ i > j
       /\ \E p \in 1..Len(log) : log[p].id = heap[tasks[i]].id /\ log[p].kind = "rollover"
       /\ \E q \in 1..Len(log) : log[q].id = heap[tasks[j]].id /\ log[q].kind = "split"

\* ------------------------------------------------------------------ C13
\* "HH:MM" with numeric parts
WellFormedTime(time) ==
  /\ Len(time) = 5
  /\ time[3] = ":"
  /\ \A i \in {1, 2, 4, 5} : time[i] \in {"0", "1", "2", "3", "4", "5", "6", "7", "8", "9"}

MalformedInput ==
  \E i \in 1..Len(tasks) :
    /\ heap[tasks[i]].type \in {"Anchor", "Interrupt"}
    /\ heap[tasks[i]].fixedStartTime # NoTime
    /\ ~WellFormedTime(heap[tasks[i]].fixedStartTime)

\* C13 (as stated): when a fixed task's fixedStartTime is malformed the call
\* aborts with a FormatError: it never returns a result.
C13_MalformedAborts ==
  MalformedInput => ~Finished

\* ------------------------------------------------------------------ C14
\* the head of the queue, while the loop is about to take it
HeadTask == heap[Head(queue)]

Popping == pc = "loop" /\ queue # <<>>

SomeGapFits == \E i \in 1..Len(gaps) : gaps[i].duration >= HeadTask.durationMinutes

\* the iteration appends exactly the block b and keeps the earlier ones
Emits(b) ==
  /\ Len(blocks') = Len(blocks) + 1
  /\ SubSeq(blocks', 1, Len(blocks)) = blocks
  /\ blocks'[Len(blocks')] = b

C14_FirstFitStep ==
  (Popping /\ SomeGapFits) =>
    \E i \in 1..Len(gaps) :
      /\ gaps[i].duration >= HeadTask.durationMinutes
      /\ \A j \in 1..(i - 1) : gaps[j].duration < HeadTask.durationMinutes
      /\ \E b \in {blocks'[Len(blocks')]} :
           /\ Emits(b)
           /\ b.taskId = HeadTask.id
           /\ ~b.isLocked
           /\ b.startTime = gaps[i].start
           /\ b.endTime = b.startTime + HeadTask.durationMinutes
      /\ Len(gaps') = Len(gaps)
      /\ \A j \in 1..Len(gaps) : j # i => gaps'[j] = gaps[j]
      /\ rollover' = rollover

\* one Anchor at 09:00 for 90 minutes, one floating task of 120 minutes,
\* buffer 15
C14_ExampleInput ==
  /\ Len(tasks) = 2
  /\ settings.bufferMinutes = 15
  /\ \E i, j \in 1..2 :
       /\ heap[tasks[i]].type = "Anchor"
       /\ heap[tasks[i]].fixedStartTime = <<"0", "9", ":", "0", "0">>
       /\ heap[tasks[i]].durationMinutes = 90
       /\ heap[tasks[j]].type = "Floating"
       /\ heap[tasks[j]].status # "completed"
       /\ heap[tasks[j]].durationMinutes = 120

C14_ExampleResult ==
  \E k \in 1..Len(blocks) :
    /\ ~blocks[k].isLocked
    /\ blocks[k].startTime = 360
    /\ blocks[k].endTime = 480
    /\ \A m \in 1..Len(blocks) : ~blocks[m].isLocked => m = k

\* C14: an iteration on a task that some gap can hold places the task in the
\* first such gap of the gap list: one unlocked block from that gap's current
\* start, of the task's duration; no other gap changes and nothing rolls
\* over.  With one Anchor at 09:00 for 90 minutes, buffer 15 and one
\* floating task of 120 minutes the floating block is 360-480.
C14_FirstFit ==
  /\ [][C14_FirstFitStep]_vars
  /\ []((Finished /\ C14_ExampleInput) => C14_ExampleResult)

\* a task was placed at the start of a gap although a later gap would have
\* held it more tightly
C14_Witness ==
  /\ Finished
  /\ \E k \in 1..Len(blocks) : \E g1, g2 \in 1..Len(InitialGaps) :
       /\ ~blocks[k].isLocked
       /\ ~IsPartA(blocks[k])
       /\ g1 < g2
       /\ blocks[k].startTime = InitialGaps[g1].start
       /\ BlockLen(blocks[k]) <= InitialGaps[g2].duration
       /\ InitialGaps[g2].duration < InitialGaps[g1].duration

\* ------------------------------------------------------------------ C15
C15_SplitGuardStep ==
  (Popping /\ SplitStep) =>
    /\ ~SomeGapFits
    /\ HeadTask.isSplittable
    /\ HeadTask.durationMinutes > 30
    /\ blocks'[Len(blocks')].taskId = HeadTask.id

\* the caller's floating tasks that must not be split
Unsplittable ==
  { i \in LiveFloating :
      ~heap[tasks[i]].isSplittable \/ heap[tasks[i]].durationMinutes <= 30 }

OneFullBlock(i) ==
  /\ Cardinality(BlocksOf(heap[tasks[i]].id)) = 1
  /\ RolloverOf(heap[tasks[i]].id) = {}
  /\ \A k \in BlocksOf(heap[tasks[i]].id) :
       /\ BlockLen(blocks[k]) = heap[tasks[i]].durationMinutes
       /\ ~IsPartA(blocks[k])

OneRolloverEntry(i) ==
  /\ BlocksOf(heap[tasks[i]].id) = {}
  /\ Cardinality(RolloverOf(heap[tasks[i]].id)) = 1
  /\ \A k \in RolloverOf(heap[tasks[i]].id) : rollover[k] = tasks[i]

\* C15: a Part 1 block is emitted for a task only when no gap can hold the
\* task, the task is splittable and it is longer than 30 minutes; so in the
\* result a task that is not splittable or is at most 30 minutes long has
\* exactly one block of its full duration or exactly one rollover entry.
C15_SplitOnlyIfAllowed ==
  /\ [][C15_SplitGuardStep]_vars
  /\ [](Finished => \A i \in Unsplittable : OneFullBlock(i) \/ OneRolloverEntry(i))

\* a task that must not be split was rolled over whole although a gap of 15
\* minutes or more existed and another task was split
C15_Witness ==
  /\ Finished
  /\ \E k \in 1..Len(blocks) : IsPartA(blocks[k])
  /\ \E i \in Unsplittable :
       /\ OneRolloverEntry(i)
       /\ \/ ~heap[tasks[i]].isSplittable /\ heap[tasks[i]].durationMinutes > 30
          \/ heap[tasks[i]].isSplittable /\ heap[tasks[i]].durationMinutes <= 30
       /\ \E g \in 1..Len(InitialGaps) : InitialGaps[g].duration >= 15

\* ------------------------------------------------------------------ C16
\* gap i has the largest current duration and is the earliest such gap
IsLargest(i) ==
  /\ i \in 1..Len(gaps)
  /\ \A j \in 1..Len(gaps) : gaps[j].duration <= gaps[i].duration
  /\ \A j \in 1..(i - 1) : gaps[j].duration < gaps[i].duration

\* the head of the queue is about to enter the split attempt
SplitAttempt ==
  /\ Popping
  /\ ~SomeGapFits
  /\ HeadTask.isSplittable
  /\ HeadTask.durationMinutes > 30
  /\ gaps # <<>>

C16_SplitStep ==
  (Popping /\ SplitStep) =>
    \E i \in 1..Len(gaps) :
      LET b == blocks'[Len(blocks')]
          room == gaps[i].duration - settings.bufferMinutes
          fit == IF room > 15 THEN room ELSE 15
      IN /\ IsLargest(i)
         /\ Emits(b)
         /\ b.startTime = gaps[i].start
         /\ BlockLen(b) = fit
         /\ gaps'[i].start = gaps[i].start + fit + settings.bufferMinutes
         /\ gaps'[i].duration = gaps[i].duration - (fit + settings.bufferMinutes)
         /\ gaps'[i].end = gaps[i].end
         /\ Len(gaps') = Len(gaps)
         /\ \A j \in 1..Len(gaps) : j # i => gaps'[j] = gaps[j]

C16_BoundaryStep ==
  (SplitAttempt /\ \E i \in 1..Len(gaps) :
      IsLargest(i) /\ gaps[i].duration - settings.bufferMinutes = 15) =>
    (SplitStep /\ BlockLen(blocks'[Len(blocks')]) = 15)

\* C16: a split puts Part 1 at the current start of the earliest gap of
\* largest current duration, with length max(15, gap duration - buffer), and
\* advances that gap's start and reduces its duration by that length plus the
\* buffer; when gap duration - buffer is exactly 15 the split is made with a
\* Part 1 of 15 minutes.
C16_PartOnePlacement == [][C16_SplitStep /\ C16_BoundaryStep]_vars

\* a Part 1 of 15 minutes stands at the start of a gap that was buffer + 15
\* long
C16_Witness ==
  /\ Finished
  /\ \E k \in 1..Len(blocks) : \E g \in 1..Len(InitialGaps) :
       /\ IsPartA(blocks[k])
       /\ BlockLen(blocks[k]) = 15
       /\ InitialGaps[g].start = blocks[k].startTime
       /\ InitialGaps[g].duration = settings.bufferMinutes + 15

\* ------------------------------------------------------------------ C17
\* C17 (as stated): in a split attempt where the largest gap's duration minus
\* the buffer is below 15 the split is rejected: no block is emitted, no gap
\* changes and the task is appended to rolloverTasks with its full duration.
C17_StepRejected ==
  (SplitAttempt /\ \E i \in 1..Len(gaps) :
      IsLargest(i) /\ gaps[i].duration - settings.bufferMinutes < 15) =>
    /\ blocks' = blocks
    /\ gaps' = gaps
    /\ rollover' = Append(rollover, Head(queue))
    /\ heap'[Head(queue)] = heap[Head(queue)]

C17_SmallGapRejected == [][C17_StepRejected]_vars

\* ------------------------------------------------------------------ C18
C18_RequeueStep ==
  (Popping /\ SplitStep) =>
    /\ queue' # <<>>
    /\ Head(queue') \notin 1..Len(heap)
    /\ Tail(queue') = Tail(queue)
    /\ \E r \in {heap'[Head(queue')]} :
         /\ r.id = HeadTask.id
         /\ r.type = HeadTask.type
         /\ r.priority = HeadTask.priority
         /\ r.isSplittable = HeadTask.isSplittable
         /\ r.title = Append(HeadTask.title, "(Part 2)")
         /\ r.durationMinutes = HeadTask.durationMinutes - BlockLen(blocks'[Len(blocks')])

\* the iteration after a split is on the remainder that split made
C18_RemainderNext ==
  /\ \A p \in 1..(Len(log) - 1) :
       log[p].kind = "split" =>
         /\ log[p + 1].id = log[p].id
         /\ log[p + 1].ref > log[p].ref
         /\ \A q \in 1..p : log[q].ref # log[p + 1].ref
  /\ (Finished /\ log # <<>>) => log[Len(log)].kind # "split"

\* C18: a split puts its Part 2 remainder (id, type, priority and
\* isSplittable of the parent, title with "(Part 2)" appended) at the front
\* of the queue, ahead of every task still waiting, and the next iteration
\* of the loop is the one on that remainder.
C18_RemainderFirst == [][C18_RequeueStep]_vars /\ []C18_RemainderNext

\* a task was split while another task was waiting; the remainder was taken
\* next and the other task after it
C18_Witness ==
  /\ Finished
  /\ \E p \in 1..Len(log) : \E q \in 1..Len(log) :
       /\ log[p].kind = "split"
       /\ q > p + 1
       /\ log[p + 1].id = log[p].id
       /\ log[q].id # log[p].id

\* ------------------------------------------------------------------ C19
\* the iteration on the head of the queue emits no block
GivesUp == Popping /\ Len(blocks') = Len(blocks)

C19_RolloverStep ==
  GivesUp =>
    /\ rollover' = Append(rollover, Head(queue))
    /\ heap' = heap
    /\ blocks' = blocks
    /\ gaps' = gaps
    /\ queue' = Tail(queue)

\* the references the log's rollover iterations were on, oldest first
RECURSIVE GivenUp(_)
GivenUp(l) ==
  IF l = <<>> THEN <<>>
  ELSE IF l[Len(l)].kind = "rollover"
         THEN Append(GivenUp(SubSeq(l, 1, Len(l) - 1)), l[Len(l)].ref)
         ELSE GivenUp(SubSeq(l, 1, Len(l) - 1))

\* C19: an iteration that neither places nor splits its task appends the
\* task, unchanged, to the end of rolloverTasks and changes no gap and no
\* emitted block, so rolloverTasks lists the tasks in the order they were
\* given up; a call in which a task rolled over still returns its result.
C19_RolloverFrame ==
  /\ [][C19_RolloverStep]_vars
  /\ [](rollover = GivenUp(log))
  /\ (pc = "loop" /\ rollover # <<>>) ~> (Finished /\ rollover # <<>>)

\* two tasks were given up, one after the other, in a call that also
\* emitted an unlocked block
C19_Witness ==
  /\ Finished
  /\ Len(rollover) >= 2
  /\ heap[rollover[1]].id # heap[rollover[2]].id
  /\ \E k \in 1..Len(blocks) : ~blocks[k].isLocked

\* ------------------------------------------------------------------ C20
Covered(m) == \E k \in 1..Len(occupied) : occupied[k].start <= m /\ m < occupied[k].end

\* C20 (as stated): the initial gap list is exactly the free part of the
\* window [360, 1380): ascending, pairwise disjoint, each gap non-empty with
\* duration = end - start, every gap inside [360, 1380], no gap meeting an
\* occupied interval, and every free minute of the window in some gap.
C20_GapsAreFreeWindow ==
  (pc # "start") =>
    /\ \A g \in 1..Len(InitialGaps) :
         /\ InitialGaps[g].start < InitialGaps[g].end
         /\ InitialGaps[g].duration = InitialGaps[g].end - InitialGaps[g].start
         /\ 360 <= InitialGaps[g].start
         /\ InitialGaps[g].end <= 1380
         /\ \A m \in InitialGaps[g].start..(InitialGaps[g].end - 1) : ~Covered(m)
    /\ \A g, h \in 1..Len(InitialGaps) : g < h => InitialGaps[g].end <= InitialGaps[h].start
    /\ \A m \in 360..1379 :
         ~Covered(m) => \E g \in 1..Len(InitialGaps) : InitialGaps[g].start <= m /\ m < InitialGaps[g].end

\* ------------------------------------------------------------------ C21
\* C21 (as stated): in every state of a run every merged occupied interval
\* and every gap, as created and after each consumption by a placement or a
\* split, has start <= end.
C21_IntervalsOrdered ==
  /\ \A k \in 1..Len(occupied) : occupied[k].start <= occupied[k].end
  /\ \A g \in 1..Len(gaps) : gaps[g].start <= gaps[g].end

\* ------------------------------------------------------------------ C22
\* an Anchor or Interrupt without a fixedStartTime
UnsetFixed(t) == t.type \in {"Anchor", "Interrupt"} /\ t.fixedStartTime = NoTime

\* the caller's tasks that were deleted from the list: a caller's task has
\* its own position as id, a Part 2 remainder has its parent's
Deleted ==
  { r \in 1..Len(heap) : heap[r].id = r /\ \A i \in 1..Len(tasks) : tasks[i] # r }

\* the fixed tasks of the list that have a start time
TimedFixed ==
  { i \in 1..Len(tasks) :
      heap[tasks[i]].type \in {"Anchor", "Interrupt"} /\ heap[tasks[i]].fixedStartTime # NoTime }

C22_NoTrace ==
  /\ \A i \in 1..Len(tasks) :
       UnsetFixed(heap[tasks[i]]) =>
         /\ BlocksOf(heap[tasks[i]].id) = {}
         /\ RolloverOf(heap[tasks[i]].id) = {}
         /\ \A k \in 1..Len(queue) : heap[queue[k]].id # heap[tasks[i]].id
  /\ (pc # "start") =>
       \A k \in 1..Len(occupied) :
         /\ \E i \in TimedFixed :
              LET start == timeToMinutes(heap[tasks[i]].fixedStartTime) - settings.bufferMinutes
              IN occupied[k].start = (IF start > 0 THEN start ELSE 0)
         /\ \E i \in TimedFixed :
              LET end == timeToMinutes(heap[tasks[i]].fixedStartTime)
                           + heap[tasks[i]].durationMinutes + settings.bufferMinutes
              IN occupied[k].end = (IF end < 1440 THEN end ELSE 1440)

C22_SameWithout ==
  (calls >= 2 /\ Finished /\ Deleted # {} /\ \A r \in Deleted : UnsetFixed(heap[r])) =>
    /\ Len(blocks) = Len(prev.blocks)
    /\ \A k \in 1..Len(blocks) : Decision(blocks[k]) = Decision(prev.blocks[k])
    /\ ResultOf(heap, blocks, rollover).rollover = prev.rollover

\* C22: an Anchor or Interrupt without a fixedStartTime gets no block, no
\* rollover entry, no place in the queue and no occupied interval (every
\* occupied interval starts and ends at the buffered bounds of fixed tasks
\* that have a start time), and the call on the list without that task
\* returns the same blocks and the same rollover.
C22_UnsetFixedIgnored == C22_NoTrace /\ C22_SameWithout

\* the task without a start time was deleted from between a fixed and a
\* floating task, and the call on the shorter list has returned a locked
\* block, an unlocked block
C22_Witness ==
  /\ calls >= 2
  /\ Finished
  /\ Deleted # {}
  /\ \A r \in Deleted : UnsetFixed(heap[r])
  /\ \E r \in Deleted : \E i, j \in 1..Len(tasks) : tasks[i] < r /\ r < tasks[j]
  /\ \E k \in 1..Len(blocks) : blocks[k].isLocked
  /\ \E k \in 1..Len(blocks) : ~blocks[k].isLocked

\* ------------------------------------------------------------------ C23
\* the positions, in the input array, of the fixed tasks with a start time
TimedFixedSeq ==
  SelectSeq([i \in 1..Len(tasks) |-> i], LAMBDA i : i \in TimedFixed)

\* the iterations of the loop that emitted a block, oldest first
Emissions == SelectSeq(log, LAMBDA e : e.kind \in {"place", "split"})

\* C23: the blocks sequence is the locked blocks, one per fixed task with a
\* start time in the order of the input array, followed by the unlocked
\* blocks in the order the loop emitted them (whatever their start times);
\* an empty task list gives blocks = <<>> and rolloverTasks = <<>>.
C23_BlockOrder ==
  (pc # "start") =>
    LET n == Len(TimedFixedSeq)
    IN /\ Len(blocks) = n + Len(Emissions)
       /\ \A k \in 1..n :
            /\ blocks[k].isLocked
            /\ blocks[k].taskId = heap[tasks[TimedFixedSeq[k]]].id
       /\ \A k \in 1..Len(Emissions) :
            /\ ~blocks[n + k].isLocked
            /\ blocks[n + k].taskId = Emissions[k].id
            /\ IsPartA(blocks[n + k]) <=> Emissions[k].kind = "split"
       /\ (tasks = <<>> /\ Finished) => (blocks = <<>> /\ rollover = <<>>)

\* a result that is not in start-time order: a locked block precedes a
\* locked block that starts earlier and an unlocked block that starts earlier
C23_Witness ==
  /\ Finished
  /\ \E k, m \in 1..Len(blocks) :
       k < m /\ blocks[k].isLocked /\ blocks[m].isLocked
       /\ blocks[k].startTime > blocks[m].startTime
  /\ \E k, m \in 1..Len(blocks) :
       k < m /\ blocks[k].isLocked /\ ~blocks[m].isLocked
       /\ blocks[k].startTime > blocks[m].startTime

\* ------------------------------------------------------------------ C24
\* the durationMinutes of the objects at the given positions of a sequence
\* of references, added up
RECURSIVE SumDuration(_, _)
SumDuration(refs, ks) ==
  IF ks = {} THEN 0
  ELSE LET k == CHOOSE x \in ks : TRUE
       IN heap[refs[k]].durationMinutes + SumDuration(refs, ks \ {k})

QueuedOf(id) == { k \in 1..Len(queue) : heap[queue[k]].id = id }

\* C24: for every floating task of the input that is not Completed, the
\* lengths of the blocks with its taskId plus the durationMinutes of the
\* rollover entries with its id add up to the task's durationMinutes in the
\* result (during the loop: together with what still waits in the queue under
\* its id), and every emitted block has endTime > startTime.
C24_MinutesConserved ==
  /\ (pc # "start") =>
       \A i \in LiveFloating :
         LET id == heap[tasks[i]].id
         IN SumBlockLen(BlocksOf(id)) + SumDuration(rollover, RolloverOf(id))
              + SumDuration(queue, QueuedOf(id)) = heap[tasks[i]].durationMinutes
  /\ Finished => queue = <<>>
  /\ \A k \in 1..Len(blocks) : blocks[k].endTime > blocks[k].startTime

\* a task was split twice and its last remainder rolled over
C24_Witness ==
  /\ Finished
  /\ \E i \in LiveFloating :
       /\ Cardinality({ k \in BlocksOf(heap[tasks[i]].id) : IsPartA(blocks[k]) }) >= 2
       /\ RolloverOf(heap[tasks[i]].id) # {}

\* ------------------------------------------------------------------ C25
\* the fixed blocks of the model's inputs all lie within 00:00-24:00
FixedWithinDay ==
  \A k \in 1..Len(blocks) :
    blocks[k].isLocked => (0 <= blocks[k].startTime /\ blocks[k].endTime <= 1440)

\* C25: in every state, every unlocked block u and every locked block f (of a
\* fixed task lying within the day) satisfy u.endTime <= f.startTime - buffer
\* or u.startTime >= f.endTime + buffer; a Part 1 placed in a gap shorter
\* than 15 + buffer is no exception.
C25_BufferFromLocked ==
  FixedWithinDay =>
    \A u, f \in 1..Len(blocks) :
      (~blocks[u].isLocked /\ blocks[f].isLocked) =>
        \/ blocks[u].endTime <= blocks[f].startTime - settings.bufferMinutes
        \/ blocks[u].startTime >= blocks[f].endTime + settings.bufferMinutes

\* a Part 1 of 15 minutes fills a gap shorter than 15 + buffer and ends
\* exactly the buffer before a locked block
C25_Witness ==
  /\ Finished
  /\ settings.bufferMinutes > 0
  /\ \E u, f \in 1..Len(blocks) : \E g \in 1..Len(InitialGaps) :
       /\ IsPartA(blocks[u])
       /\ blocks[f].isLocked
       /\ InitialGaps[g].start = blocks[u].startTime
       /\ InitialGaps[g].duration < 15 + settings.bufferMinutes
       /\ blocks[u].endTime = blocks[f].startTime - settings.bufferMinutes

\* ------------------------------------------------------------------ C26
\* the iteration on the head of the queue appends to rolloverTasks
RollsOver == Popping /\ rollover' # rollover

C26_RolloverStep ==
  RollsOver =>
    /\ rollover' = Append(rollover, Head(queue))
    /\ \A g \in 1..Len(gaps) : gaps[g].duration < HeadTask.durationMinutes
    /\ (HeadTask.isSplittable /\ HeadTask.durationMinutes > 30) =>
         \A g \in 1..Len(gaps) : gaps[g].duration < 15

WholePlaced == { k \in 1..Len(blocks) : ~blocks[k].isLocked /\ ~IsPartA(blocks[k]) }

SuffixesDistinct ==
  \A k, m \in WholePlaced : k # m => blocks[k].id[3] # blocks[m].id[3]

\* C27 (as stated): with distinct task ids and distinct random suffixes, the
\* blocks of a result have pairwise distinct ids; a task split more than once
\* has no two Part 1 blocks with the same id.
C27_BlockIdsDistinct ==
  (Finished /\ SuffixesDistinct) =>
    \A k, m \in 1..Len(blocks) : k # m => blocks[k].id # blocks[m].id

====
